---- MODULE Spec2Model ----
(***************************************************************************)
(* A model of AIND-planning/game_agent.py: GamePlayer.get_move with its    *)
(* iterative-deepening loop, the minimax / alpha-beta recursion of         *)
(* max_value and min_value as an explicit call stack, and the Timeout      *)
(* exception raised by the cooperative clock check.                        *)
(*                                                                         *)
(* The board (isolation.Board) and the evaluator are collaborators of the  *)
(* player: a position is a game tree node [score, kids], where kids lists  *)
(* the successor positions in legal-move order and score is what the       *)
(* evaluator self.score(game, self) returns for that position.  Move m of  *)
(* a position is the index of its m-th legal move.                         *)
(***************************************************************************)
EXTENDS Integers, Sequences, FiniteSets

\* ---------------------------------------------------------------- bounds
MaxScore == 1        \* finite evaluator scores are 0..MaxScore
MaxDepth == 3        \* deepest search the model starts
MaxNodes == 4        \* positions per game tree, get_move runs
MaxCmpNodes == 6     \* positions per game tree, minimax against alphabeta
MaxFairNodes == 3    \* positions per game tree, iterative runs under fairness

\* ------------------------------------------------------ program constants
TIMER_THRESHOLD == 10
NoMove == -1

PosInf == MaxScore + 1
NegInf == -(MaxScore + 1)
Scores == {NegInf} \cup (0..MaxScore) \cup {PosInf}

\* alpha and beta are either absent (Python None) or a score.
None == <<>>
Some(x) == <<x>>
Val(o) == o[1]

Max(a, b) == IF a >= b THEN a ELSE b
Min(a, b) == IF a <= b THEN a ELSE b

\* -------------------------------------------------------------- the board
RECURSIVE Boards(_, _, _, _), Forests(_, _, _, _)
\* Game trees of n positions rooted at ply lvl.  The evaluator's score varies
\* over Scores at the plies in evalPlies (the plies where a search reaches
\* depth 0) and is 0 elsewhere, where no search reads it; the tree ends at
\* ply horizon, the deepest ply a search reaches.
Boards(n, lvl, evalPlies, horizon) ==
    IF lvl = horizon /\ n > 1 THEN {}
    ELSE { [score |-> s, kids |-> f] :
             s \in (IF lvl \in evalPlies THEN Scores ELSE {0}),
             f \in Forests(n - 1, lvl + 1, evalPlies, horizon) }
Forests(n, lvl, evalPlies, horizon) ==
    IF n = 0 THEN { <<>> }
    ELSE UNION { { <<t>> \o f : t \in Boards(k, lvl, evalPlies, horizon),
                                f \in Forests(n - k, lvl, evalPlies, horizon) }
                 : k \in 1..n }
GameTrees(maxNodes, evalPlies, horizon) ==
    UNION { Boards(n, 0, evalPlies, horizon) : n \in 1..maxNodes }

get_legal_moves(g) == 1..Len(g.kids)
forecast_move(g, m) == g.kids[m]
score(g) == g.score

VARIABLES
    game,          \* the position get_move (or the comparison) is called on
    iterative,     \* self.iterative
    method,        \* self.method: "minimax" or "alphabeta"
    search_depth,  \* self.search_depth
    unlimited,     \* the caller's clock never runs low
    time_left,     \* the last reading of self.time_left()
    pc,            \* where the caller is
    move,          \* get_move's local move
    current_depth, \* get_move's local current_depth
    stack,         \* the active max_value / min_value frames, innermost last
    ret,           \* the value the last finished call returned, None if consumed
    exc,           \* a Timeout is propagating
    calls,         \* max_value / min_value calls entered
    evals,         \* evaluator calls made
    retFrom,       \* the frame the last returned value came from
    completed,     \* the results of the search calls that returned normally
    caught         \* times get_move's except clause ran

vars == << game, iterative, method, search_depth, unlimited, time_left, pc, move,
           current_depth, stack, ret, exc, calls, evals, retFrom, completed, caught >>

config == << game, iterative, method, search_depth, unlimited >>

\* ------------------------------------------------------------- the clock
TimeLimit == TIMER_THRESHOLD - 3
\* self.time_left() is the caller's clock: it never runs backwards.
TimeReadings == IF unlimited THEN {time_left} ELSE (TimeLimit - 1)..time_left
should_timeout(now) == now < TimeLimit

\* ------------------------------------------------------------ the frames
use_alpha_beta_pruning(alpha, beta) == alpha # None /\ beta # None

NewFrame(fn, g, depth, alpha, beta) ==
    [ fn |-> fn, game |-> g, depth |-> depth, alpha |-> alpha, beta |-> beta,
      utility_score |-> 0, next_move |-> NoMove, i |-> 0, pc |-> "entry" ]

Top == stack[Len(stack)]
Pop == SubSeq(stack, 1, Len(stack) - 1)
SetTop(f) == [stack EXCEPT ![Len(stack)] = f]
Other(fn) == IF fn = "max_value" THEN "min_value" ELSE "max_value"

\* minimax(game, depth) and alphabeta(game, depth): both start in max_value.
minimax(g, depth) == NewFrame("max_value", g, depth, None, None)
alphabeta(g, depth) == NewFrame("max_value", g, depth, Some(NegInf), Some(PosInf))
search_method(g, depth) ==
    IF method = "minimax" THEN minimax(g, depth) ELSE alphabeta(g, depth)

\* Faulty variant: the two initial values the wrong way round.
InitialUtility_Swapped(fn) == IF fn = "max_value" THEN PosInf ELSE NegInf

\* utility_score before the loop: -inf in max_value, +inf in min_value.
InitialUtility(fn) == IF fn = "max_value" THEN NegInf ELSE PosInf

\* Faulty variant: the depth-0 leaf is evaluated before the clock is checked.
Enter_LeafFirst ==
    /\ stack # <<>> /\ ~exc /\ Top.pc = "entry"
    /\ calls' = calls + 1
    /\ \E now \in TimeReadings :
        /\ time_left' = now
        /\ IF Top.depth = 0
           THEN /\ ret' = << score(Top.game), NoMove >>
                /\ evals' = evals + 1
                /\ retFrom' = Top
                /\ stack' = Pop
                /\ exc' = FALSE
           ELSE IF should_timeout(now)
           THEN /\ exc' = TRUE
                /\ stack' = Pop
                /\ UNCHANGED << ret, evals, retFrom >>
           ELSE /\ stack' = SetTop([Top EXCEPT
                        !.utility_score = InitialUtility(Top.fn),
                        !.next_move = NoMove, !.i = 1, !.pc = "loop"])
                /\ UNCHANGED << ret, evals, retFrom, exc >>
    /\ UNCHANGED << config, pc, move, current_depth, completed, caught >>

\* Entry of max_value / min_value: the clock check, the depth-0 leaf, the
\* initialisation of the loop.
Enter ==
    /\ stack # <<>> /\ ~exc /\ Top.pc = "entry"
    /\ calls' = calls + 1
    /\ \E now \in TimeReadings :
        /\ time_left' = now
        /\ IF should_timeout(now)
           THEN /\ exc' = TRUE
                /\ stack' = Pop
                /\ UNCHANGED << ret, evals, retFrom >>
           ELSE IF Top.depth = 0
           THEN /\ ret' = << score(Top.game), NoMove >>
                /\ evals' = evals + 1
                /\ retFrom' = Top
                /\ stack' = Pop
                /\ exc' = FALSE
           ELSE /\ stack' = SetTop([Top EXCEPT
                        !.utility_score = InitialUtility(Top.fn),
                        !.next_move = NoMove, !.i = 1, !.pc = "loop"])
                /\ UNCHANGED << ret, evals, retFrom, exc >>
    /\ UNCHANGED << config, pc, move, current_depth, completed, caught >>

\* The head of the for loop: descend into the next legal move, or fall out
\* of the loop and return.
Loop ==
    /\ stack # <<>> /\ ~exc /\ Top.pc = "loop"
    /\ IF Top.i \in get_legal_moves(Top.game)
       THEN /\ stack' = Append(SetTop([Top EXCEPT !.pc = "call"]),
                               NewFrame(Other(Top.fn), forecast_move(Top.game, Top.i),
                                        Top.depth - 1, Top.alpha, Top.beta))
            /\ UNCHANGED << ret, retFrom >>
       ELSE /\ ret' = << Top.utility_score, Top.next_move >>
            /\ retFrom' = Top
            /\ stack' = Pop
    /\ UNCHANGED << config, time_left, pc, move, current_depth, exc, calls, evals,
                    completed, caught >>

\* The body of the for loop after the recursive call returned.
Improves(f, next_score) ==
    IF f.fn = "max_value" THEN f.utility_score < next_score
                          ELSE f.utility_score > next_score
\* Faulty variant: each side tests the bound it owns instead of its opponent's.
Cutoff_WrongBound(f) ==
    IF f.fn = "max_value" THEN f.utility_score >= Val(f.alpha)
                          ELSE f.utility_score <= Val(f.beta)
\* Faulty variant: the early return is missing.
Cutoff_Never(f) == FALSE
Cutoff(f) ==
    IF f.fn = "max_value" THEN f.utility_score >= Val(f.beta)
                          ELSE f.utility_score <= Val(f.alpha)
Tighten(f) ==
    IF f.fn = "max_value"
    THEN [f EXCEPT !.alpha = Some(Max(Val(f.alpha), f.utility_score))]
    ELSE [f EXCEPT !.beta = Some(Min(Val(f.beta), f.utility_score))]
Update(f, next_score) ==
    IF Improves(f, next_score)
    THEN [f EXCEPT !.utility_score = next_score, !.next_move = f.i]
    ELSE f

Resume ==
    /\ stack # <<>> /\ ~exc /\ Top.pc = "call" /\ ret # None
    /\ LET f == Update(Top, ret[1]) IN
       IF use_alpha_beta_pruning(f.alpha, f.beta) /\ Cutoff(f)
       THEN /\ ret' = << f.utility_score, f.next_move >>
            /\ retFrom' = f
            /\ stack' = Pop
       ELSE /\ ret' = None
            /\ retFrom' = None
            /\ stack' = SetTop([(IF use_alpha_beta_pruning(f.alpha, f.beta)
                                 THEN Tighten(f) ELSE f)
                                EXCEPT !.i = f.i + 1, !.pc = "loop"])
    /\ UNCHANGED << config, time_left, pc, move, current_depth, exc, calls, evals,
                    completed, caught >>

\* A Timeout leaves a frame that does not catch it.
Unwind ==
    /\ exc /\ stack # <<>>
    /\ stack' = Pop
    /\ UNCHANGED << config, time_left, pc, move, current_depth, ret, exc, calls, evals,
                    retFrom, completed, caught >>

\* --------------------------------------------------------------- get_move
get_move ==
    /\ pc = "get_move"
    /\ move' = NoMove
    /\ current_depth' = IF iterative THEN 1 ELSE search_depth
    /\ stack' = << search_method(game, current_depth') >>
    /\ pc' = "search"
    /\ UNCHANGED << config, time_left, ret, exc, calls, evals, retFrom, completed, caught >>

Record == [ depth |-> current_depth, method |-> method,
            score |-> ret[1], move |-> ret[2], calls |-> calls ]

\* Faulty variant: the loop of the commented-out line 74,
\* while current_depth <= self.search_depth.
SearchReturn_Capped ==
    /\ pc = "search" /\ stack = <<>> /\ ~exc /\ ret # None
    /\ move' = ret[2]
    /\ completed' = Append(completed, Record)
    /\ ret' = None
    /\ retFrom' = None
    /\ IF iterative /\ current_depth + 1 <= search_depth
       THEN /\ current_depth' = current_depth + 1
            /\ pc' = "search"
            /\ stack' = << search_method(game, current_depth') >>
       ELSE /\ pc' = "done"
            /\ current_depth' = IF iterative THEN current_depth + 1 ELSE current_depth
            /\ UNCHANGED stack
    /\ UNCHANGED << config, time_left, exc, calls, evals, caught >>

\* The search call returned: move takes its result; the iterative loop goes
\* on to the next depth, the fixed-depth branch returns.
SearchReturn ==
    /\ pc = "search" /\ stack = <<>> /\ ~exc /\ ret # None
    /\ move' = ret[2]
    /\ completed' = Append(completed, Record)
    /\ ret' = None
    /\ retFrom' = None
    /\ IF iterative
       THEN /\ current_depth' = current_depth + 1
            /\ pc' = "search"
            /\ stack' = IF current_depth' <= MaxDepth
                        THEN << search_method(game, current_depth') >>
                        ELSE <<>>
       ELSE /\ pc' = "done"
            /\ UNCHANGED << current_depth, stack >>
    /\ UNCHANGED << config, time_left, exc, calls, evals, caught >>

\* Faulty variant: the except clause falls back to the sentinel.
Catch_ResetsMove ==
    /\ pc = "search" /\ exc /\ stack = <<>>
    /\ exc' = FALSE
    /\ caught' = caught + 1
    /\ pc' = "done"
    /\ move' = NoMove
    /\ UNCHANGED << config, time_left, current_depth, stack, ret, calls, evals,
                    retFrom, completed >>

\* except Timeout: pass; return move
Catch ==
    /\ pc = "search" /\ exc /\ stack = <<>>
    /\ exc' = FALSE
    /\ caught' = caught + 1
    /\ pc' = "done"
    /\ UNCHANGED << config, time_left, move, current_depth, stack, ret, calls, evals,
                    retFrom, completed >>

Search == Enter \/ Loop \/ Resume \/ Unwind

InitRun ==
    /\ time_left = TimeLimit
    /\ move = NoMove /\ current_depth = 0
    /\ stack = <<>> /\ ret = None /\ exc = FALSE
    /\ calls = 0 /\ evals = 0 /\ retFrom = None /\ completed = <<>> /\ caught = 0

\* The plies at which a get_move run evaluates positions, and the deepest.
EvalPlies == IF iterative THEN 1..MaxDepth ELSE {search_depth}
Horizon == IF iterative THEN MaxDepth ELSE search_depth
\* search_depth is not read when iterative: one value below MaxDepth stands
\* for all, so that the loop is seen to pass it.
SearchDepths == IF iterative THEN {MaxDepth - 1} ELSE 0..MaxDepth

Init ==
    /\ iterative \in BOOLEAN
    /\ method \in {"minimax", "alphabeta"}
    /\ search_depth \in SearchDepths
    /\ unlimited = FALSE
    /\ game \in GameTrees(MaxNodes, EvalPlies, Horizon)
    /\ pc = "get_move"
    /\ InitRun

Next == get_move \/ Search \/ SearchReturn \/ Catch

Spec == Init /\ [][Next]_vars

\* The iterative-deepening runs of get_move, with the player's single thread
\* never starved: a step that can be taken is taken.  The clock is the
\* caller's and is promised nothing.
InitIterative ==
    /\ iterative = TRUE
    /\ method \in {"minimax", "alphabeta"}
    /\ search_depth \in SearchDepths
    /\ unlimited = FALSE
    /\ game \in GameTrees(MaxFairNodes, EvalPlies, Horizon)
    /\ pc = "get_move"
    /\ InitRun
FairSpec == InitIterative /\ [][Next]_vars /\ WF_vars(Next)

\* ------------------------------------------- minimax against alphabeta
\* A caller that runs minimax(game, search_depth) and then
\* alphabeta(game, search_depth) on the same position, under a clock that
\* never runs low, and keeps both results.
Compare ==
    /\ pc = "compare"
    /\ method' = "minimax"
    /\ current_depth' = search_depth
    /\ stack' = << minimax(game, search_depth) >>
    /\ pc' = "minimax"
    /\ UNCHANGED << game, iterative, search_depth, unlimited, time_left, move, ret, exc,
                    calls, evals, retFrom, completed, caught >>

CompareNext ==
    /\ pc = "minimax" /\ stack = <<>> /\ ~exc /\ ret # None
    /\ completed' = Append(completed, Record)
    /\ ret' = None
    /\ retFrom' = None
    /\ method' = "alphabeta"
    /\ stack' = << alphabeta(game, search_depth) >>
    /\ pc' = "alphabeta"
    /\ UNCHANGED << game, iterative, search_depth, unlimited, time_left, move,
                    current_depth, exc, calls, evals, caught >>

CompareEnd ==
    /\ pc = "alphabeta" /\ stack = <<>> /\ ~exc /\ ret # None
    /\ completed' = Append(completed, Record)
    /\ ret' = None
    /\ retFrom' = None
    /\ pc' = "compared"
    /\ UNCHANGED << config, time_left, move, current_depth, stack, exc, calls, evals,
                    caught >>

InitCmp ==
    /\ iterative = FALSE
    /\ method = "minimax"
    /\ search_depth \in 0..MaxDepth
    /\ unlimited = TRUE
    /\ game \in GameTrees(MaxCmpNodes, {search_depth}, search_depth)
    /\ pc = "compare"
    /\ InitRun

NextCmp == Compare \/ Enter \/ Loop \/ Resume \/ CompareNext \/ CompareEnd

SpecCmp == InitCmp /\ [][NextCmp]_vars

\* The calls each of the two compared searches made.
MinimaxCalls == completed[1].calls
AlphaBetaCalls == completed[2].calls - completed[1].calls

\* ================================================================ claims

Last(q) == q[Len(q)]
TimedOut == time_left < TimeLimit

\* C1: on every game tree and at every depth, with a clock that never runs
\* low, alphabeta started with alpha = -inf and beta = +inf returns the same
\* (score, move) pair as minimax.
C1_AlphaBetaEqualsMinimax ==
    pc = "compared" =>
        << completed[2].score, completed[2].move >>
            = << completed[1].score, completed[1].move >>

\* C1 witness: both searches finished, alphabeta skipped positions, and the
\* move both chose is not the first one.
C1_Witness ==
    /\ pc = "compared"
    /\ AlphaBetaCalls < MinimaxCalls
    /\ completed[1].move > 1
    /\ completed[2].move = completed[1].move
    /\ completed[1].score \in 0..MaxScore

\* C2: when Timeout ends a search call inside get_move, get_move returns the
\* move of the last search call that returned normally, and the sentinel if
\* none did (always so for the single fixed-depth call).
C2_TimeoutKeepsLastCompleted ==
    (pc = "done" /\ caught > 0) =>
        /\ move = (IF completed = <<>> THEN NoMove ELSE Last(completed).move)
        /\ ~iterative => move = NoMove

\* C2 witness: get_move returned after a Timeout that interrupted a search
\* which had already entered several calls, and holds the legal move of an
\* earlier completed depth.
C2_Witness ==
    /\ pc = "done" /\ caught = 1
    /\ completed # <<>>
    /\ move = Last(completed).move /\ move # NoMove
    /\ calls > Last(completed).calls + 2

\* C3 (as the specification states it): iterative deepening under a clock
\* that never runs low returns, once depth search_depth has completed, the
\* move of that depth, as the fixed-depth search at search_depth does.
C3_IterativeStopsAtSearchDepth ==
    (iterative /\ ~TimedOut /\ Len(completed) >= search_depth) =>
        (pc = "done" /\ move = completed[search_depth].move)

\* C4 (as the specification states it): with no legal move at the position
\* get_move is called on, no max_value / min_value call is ever made.
C4_NoSearchWithoutLegalMoves ==
    get_legal_moves(game) = {} => (calls = 0 /\ stack = <<>>)

\* C5: alphabeta never enters more max_value / min_value calls than minimax
\* on the same tree and depth, and enters strictly fewer on CutoffTree at
\* depth 2.
CutoffTree ==
    [ score |-> 0,
      kids |-> << [ score |-> 0, kids |-> << [score |-> 1, kids |-> <<>>] >> ],
                  [ score |-> 0, kids |-> << [score |-> 0, kids |-> <<>>],
                                             [score |-> 1, kids |-> <<>>] >> ] >> ]
C5_AlphaBetaVisitsNoMore ==
    pc = "compared" =>
        /\ AlphaBetaCalls <= MinimaxCalls
        /\ (game = CutoffTree /\ search_depth = 2) => AlphaBetaCalls < MinimaxCalls

\* C5 witness: on CutoffTree at depth 2 minimax entered all six positions and
\* alphabeta five.
C5_Witness ==
    /\ pc = "compared" /\ game = CutoffTree /\ search_depth = 2
    /\ MinimaxCalls = 6 /\ AlphaBetaCalls = 5

\* C6 (as the specification states it): a completed depth-1 search returns
\* the first move, in legal-move order, whose score is the maximum over the
\* legal moves.
BestScore(g) ==
    CHOOSE v \in { score(forecast_move(g, m)) : m \in get_legal_moves(g) } :
        \A m \in get_legal_moves(g) : score(forecast_move(g, m)) <= v
FirstBest(g) ==
    CHOOSE m \in get_legal_moves(g) :
        /\ score(forecast_move(g, m)) = BestScore(g)
        /\ \A j \in 1..(m - 1) : score(forecast_move(g, j)) < BestScore(g)
C6_DepthOneReturnsFirstBest ==
    \A k \in 1..Len(completed) :
        (completed[k].depth = 1 /\ get_legal_moves(game) # {}) =>
            completed[k].move = FirstBest(game)

\* C7: the clock check comes first in every call (a call that reads an
\* expired clock raises without evaluating or returning anything), and while
\* a Timeout propagates every step only drops the innermost frame, with no
\* call, evaluation, return value or move produced, until get_move catches
\* it, which happens at most once.
C7_TimeoutUnwindsEveryFrame ==
    /\ [][ /\ (stack # <<>> /\ ~exc /\ Top.pc = "entry" /\ should_timeout(time_left'))
              => (exc' /\ stack' = Pop /\ evals' = evals /\ ret' = ret /\ move' = move)
           /\ exc =>
              /\ calls' = calls /\ evals' = evals /\ ret' = ret
              /\ move' = move /\ completed' = completed
              /\ IF stack # <<>>
                 THEN exc' /\ stack' = Pop /\ caught' = caught /\ pc' = pc
                 ELSE ~exc' /\ caught' = caught + 1 /\ pc' = "done" ]_vars
    /\ [](caught <= 1)

\* C7 witness: a Timeout is propagating through two frames, the outer one
\* holding a best move found before the clock ran out.
C7_Witness ==
    /\ exc /\ Len(stack) >= 2
    /\ \E k \in 1..Len(stack) : stack[k].next_move # NoMove

\* C8: with iterative set, get_move starts its searches at depths 1, 2, 3,
\* ... whatever search_depth is, returns only after a Timeout, and does
\* return once the clock has run low.
C8_IterativeEndsOnlyByTimeout ==
    /\ [][ (iterative /\ pc' = "search" /\ stack = <<>> /\ stack' # <<>>)
              => (Len(stack') = 1 /\ stack'[1].depth = Len(completed') + 1) ]_vars
    /\ []((iterative /\ pc = "done") => (caught = 1 /\ TimedOut))
    /\ ((iterative /\ TimedOut) ~> (pc = "done"))

\* C8 witness: an iterative get_move completed depths 1..search_depth, went
\* on to a deeper search and returned when that one timed out.
C8_Witness ==
    /\ iterative /\ pc = "done" /\ caught = 1
    /\ Len(completed) = search_depth
    /\ \A k \in 1..Len(completed) : completed[k].depth = k
    /\ current_depth > search_depth

\* C9 (as the specification states it): a max_value / min_value call with
\* depth > 0 and no legal move returns the sentinel move with the
\* evaluator's score of its position.
NoMovesReturn ==
    /\ ret # None /\ retFrom # None
    /\ retFrom.depth > 0 /\ get_legal_moves(retFrom.game) = {}
C9_NoMovesReturnsEvaluation ==
    NoMovesReturn => ret = << score(retFrom.game), NoMove >>

\* C9 (amended): such a call returns the sentinel move with the initial
\* utility_score, -inf from max_value and +inf from min_value, and does not
\* call the evaluator.
C9_NoMovesReturnsInitialUtility ==
    /\ [](NoMovesReturn =>
            ret = << (IF retFrom.fn = "max_value" THEN NegInf ELSE PosInf), NoMove >>)
    /\ [][ (stack # <<>> /\ ~exc /\ Top.pc = "loop"
                /\ get_legal_moves(Top.game) = {}) => evals' = evals ]_vars

\* C9 witness: min_value returned from a position with no legal move at
\* depth > 0, whose evaluator score differs from what it returned.
C9_Witness ==
    /\ NoMovesReturn
    /\ retFrom.fn = "min_value"
    /\ ret = << PosInf, NoMove >>
    /\ score(retFrom.game) # PosInf

\* C10 (as the specification states it): a search call at depth >= 1 that
\* completes at a position with a legal move returns one of the legal moves.
C10_CompletedSearchReturnsLegalMove ==
    \A k \in 1..Len(completed) :
        (completed[k].depth >= 1 /\ get_legal_moves(game) # {}) =>
            completed[k].move \in get_legal_moves(game)

====
